---- MODULE Spec2Model ----
(***************************************************************************)
(* roo_powersafefs: the Guard's mode state machine and reference counts,   *)
(* the Mount and WriteTransaction scoped handles, and the Device they      *)
(* drive.  Every Guard operation takes the Guard's mutex for its whole     *)
(* body, so each one is a single atomic action; threads interleave at the  *)
(* granularity of those operations.                                        *)
(***************************************************************************)
EXTENDS Naturals, Integers, Sequences, FiniteSets, Bags, TLC

VARIABLES guard, device, mounts, writes, last

vars == <<guard, device, mounts, writes, last>>

\* Largest number of Mount objects alive at once (owning or not).
MaxMounts == 2
\* Largest number of WriteTransaction objects alive at once (owning or not).
MaxWrites == 2

FS_NORMAL == "FS_NORMAL"
FS_EAGER_UNMOUNT == "FS_EAGER_UNMOUNT"
FS_LAME_DUCK == "FS_LAME_DUCK"
FS_SHUTDOWN == "FS_SHUTDOWN"
FS_DISABLED == "FS_DISABLED"

Mode == {FS_NORMAL, FS_EAGER_UNMOUNT, FS_LAME_DUCK, FS_SHUTDOWN, FS_DISABLED}

(***************************************************************************)
(* The Guard's fields after construction.                                  *)
(***************************************************************************)
GuardInit ==
  [mode_ |-> FS_NORMAL,
   mounted_ |-> FALSE,
   mount_count_ |-> 0,
   forced_mount_count_ |-> 0,
   write_transaction_count_ |-> 0,
   forced_write_transaction_count_ |-> 0]

(***************************************************************************)
(* An operation in progress: the Guard's fields, the physical state of the *)
(* device, the device calls made so far and the value to return.           *)
(***************************************************************************)
Enter == [g |-> guard, dev |-> device, calls |-> <<>>, ret |-> FALSE]

(***************************************************************************)
(* Device::mount(): the device reports success or failure (ok); it is      *)
(* physically mounted afterwards when it reports success.  The call is     *)
(* logged with its result.                                                 *)
(***************************************************************************)
DeviceMount(c, ok) ==
  [c EXCEPT !.dev = ok,
            !.calls = Append(@, IF ok THEN "mount=true" ELSE "mount=false"),
            !.ret = ok]

(***************************************************************************)
(* Device::unmount(): no result; the device is physically unmounted.       *)
(***************************************************************************)
DeviceUnmount(c) ==
  [c EXCEPT !.dev = FALSE, !.calls = Append(@, "unmount")]

\* mounted_ = device_->mount();
Remount(c, ok) ==
  LET d == DeviceMount(c, ok)
  IN [d EXCEPT !.g.mounted_ = d.ret]

\* device_->unmount(); mounted_ = false;
ForceUnmount(c) ==
  LET d == DeviceUnmount(c)
  IN [d EXCEPT !.g.mounted_ = FALSE]

unmountIfPending(c) ==
  IF c.g.mounted_ /\ c.g.mount_count_ = 0 THEN ForceUnmount(c) ELSE c

\* case FS_NORMAL of setMode's switch.
CaseNormal(c, ok) ==
  IF ~c.g.mounted_ /\ c.g.mount_count_ > 0 THEN Remount(c, ok) ELSE c

\* case FS_EAGER_UNMOUNT of setMode's switch: falls through into FS_NORMAL.
CaseEagerUnmount(c, ok) == CaseNormal(unmountIfPending(c), ok)

\* case FS_LAME_DUCK of setMode's switch.
CaseLameDuck(c, ok) ==
  unmountIfPending(IF ~c.g.mounted_ /\ c.g.forced_mount_count_ > 0
                   THEN Remount(c, ok) ELSE c)

\* case FS_SHUTDOWN of setMode's switch.
CaseShutdown(c) == unmountIfPending(c)

\* Faulty variant: the forced unmount also drops the pending mounts.
CaseDisabledDropsCounts(c) ==
  IF c.g.mounted_
  THEN [ForceUnmount(c) EXCEPT !.g.mount_count_ = 0,
                               !.g.forced_mount_count_ = 0]
  ELSE c

\* Faulty variant: the forced unmount does not look at mounted_.
CaseDisabledUnconditional(c) == ForceUnmount(c)

\* case FS_DISABLED of setMode's switch.
CaseDisabled(c) == IF c.g.mounted_ THEN ForceUnmount(c) ELSE c

\* The value setMode switches on: the member mode_, not the argument.
SwitchedOn(c, mode) == c.g.mode_

\* Faulty variant: setMode without its early return.
SameModeNever(c, mode) == FALSE

\* The early return of setMode.
SameMode(c, mode) == mode = c.g.mode_

setMode(c, mode, ok) ==
  IF SameMode(c, mode) THEN c
  ELSE LET on == SwitchedOn(c, mode)
           d == CASE on = FS_EAGER_UNMOUNT -> CaseEagerUnmount(c, ok)
                  [] on = FS_NORMAL -> CaseNormal(c, ok)
                  [] on = FS_LAME_DUCK -> CaseLameDuck(c, ok)
                  [] on = FS_SHUTDOWN -> CaseShutdown(c)
                  [] on = FS_DISABLED -> CaseDisabled(c)
       IN [d EXCEPT !.g.mode_ = mode]

\* Faulty variant: FS_LAME_DUCK rejects nothing.
DeniedByModeLameDuckOpen(mode, forced) ==
  mode \in {FS_DISABLED, FS_SHUTDOWN}

\* Faulty variant: a forced request passes FS_SHUTDOWN as it passes FS_LAME_DUCK.
DeniedByModeForcedShutdown(mode, forced) ==
  \/ mode = FS_DISABLED
  \/ mode \in {FS_LAME_DUCK, FS_SHUTDOWN} /\ ~forced

\* The switch of tryMount and of tryBeginWriteTransaction: TRUE when the
\* request is rejected by the mode.
DeniedByMode(mode, forced) ==
  \/ mode \in {FS_DISABLED, FS_SHUTDOWN}
  \/ mode = FS_LAME_DUCK /\ ~forced

\* ++mount_count_; if (forced) ++forced_mount_count_;
CountMount(c, forced) ==
  [c EXCEPT !.g.mount_count_ = @ + 1,
            !.g.forced_mount_count_ = IF forced THEN @ + 1 ELSE @]

\* Faulty variant: the request is counted whether or not the device mounted.
tryMountCountsFailure(c, forced, ok) ==
  IF DeniedByMode(c.g.mode_, forced) THEN [c EXCEPT !.ret = FALSE]
  ELSE LET d == IF ~c.g.mounted_ THEN Remount(c, ok) ELSE c
           e == CountMount(d, forced)
       IN [e EXCEPT !.ret = e.g.mounted_]

tryMount(c, forced, ok) ==
  IF DeniedByMode(c.g.mode_, forced) THEN [c EXCEPT !.ret = FALSE]
  ELSE LET d == IF ~c.g.mounted_ THEN Remount(c, ok) ELSE c
           e == IF d.g.mounted_ THEN CountMount(d, forced) ELSE d
       IN [e EXCEPT !.ret = e.g.mounted_]

\* Faulty variant: the forced count is decremented whatever the flag.
UncountMountAlwaysForced(c, forced) ==
  [c EXCEPT !.g.mount_count_ = @ - 1,
            !.g.forced_mount_count_ = @ - 1]

\* --mount_count_; if (forced) --forced_mount_count_;
UncountMount(c, forced) ==
  [c EXCEPT !.g.mount_count_ = @ - 1,
            !.g.forced_mount_count_ = IF forced THEN @ - 1 ELSE @]

\* Faulty variant: unmount on every release, not only the last.
LastReleaseAnyCount(g) == g.mounted_ /\ g.mode_ # FS_NORMAL

\* Faulty variant: FS_NORMAL unmounts on the last release too.
LastReleaseAnyMode(g) == g.mounted_ /\ g.mount_count_ = 0

\* Faulty variant: only FS_SHUTDOWN and FS_LAME_DUCK unmount on the last release.
LastReleaseNotEager(g) ==
  g.mounted_ /\ g.mount_count_ = 0 /\ g.mode_ \in {FS_LAME_DUCK, FS_SHUTDOWN}

\* The condition under which Guard::unmount unmounts the device.
LastRelease(g) == g.mounted_ /\ g.mount_count_ = 0 /\ g.mode_ # FS_NORMAL

unmount(c, forced) ==
  LET d == UncountMount(c, forced)
  IN IF LastRelease(d.g) THEN ForceUnmount(d) ELSE d

\* ++write_transaction_count_; if (forced) ++forced_write_transaction_count_;
CountWrite(c, forced) ==
  [c EXCEPT !.g.write_transaction_count_ = @ + 1,
            !.g.forced_write_transaction_count_ = IF forced THEN @ + 1 ELSE @]

\* Faulty variant: the mounted_ check is missing.
tryBeginWriteTransactionUnchecked(c, forced) ==
  IF DeniedByMode(c.g.mode_, forced) THEN [c EXCEPT !.ret = FALSE]
  ELSE [CountWrite(c, forced) EXCEPT !.ret = TRUE]

tryBeginWriteTransaction(c, forced) ==
  IF ~c.g.mounted_ THEN [c EXCEPT !.ret = FALSE]
  ELSE IF DeniedByMode(c.g.mode_, forced) THEN [c EXCEPT !.ret = FALSE]
  ELSE [CountWrite(c, forced) EXCEPT !.ret = TRUE]

\* Faulty variant: the end of the last write unmounts outside FS_NORMAL,
\* as the release of the last Mount does.
endWriteTransactionUnmounts(c, forced) ==
  LET d == [c EXCEPT !.g.write_transaction_count_ = @ - 1,
                     !.g.forced_write_transaction_count_ =
                        IF forced THEN @ - 1 ELSE @]
  IN IF d.g.mounted_ /\ d.g.write_transaction_count_ = 0
          /\ d.g.mode_ # FS_NORMAL
     THEN ForceUnmount(d) ELSE d

endWriteTransaction(c, forced) ==
  [c EXCEPT !.g.write_transaction_count_ = @ - 1,
            !.g.forced_write_transaction_count_ = IF forced THEN @ - 1 ELSE @]

(***************************************************************************)
(* The handles.  mounts and writes are the bags of Mount and               *)
(* WriteTransaction objects alive.  A Mount is its fields forced_ and      *)
(* mounted_ (guard_ is the one Guard); disabledSince is a history field:   *)
(* setMode(FS_DISABLED) has been called since this acquisition was         *)
(* granted.  A WriteTransaction is its fields forced_ and active_.         *)
(***************************************************************************)
MountHandle(forced, mounted) ==
  [forced_ |-> forced, mounted_ |-> mounted, disabledSince |-> FALSE]

WriteHandle(forced, active) == [forced_ |-> forced, active_ |-> active]

\* Faulty variant: the move leaves the source owning the acquisition.
MovedFromStillOwning(h) == h

\* other.mounted_ = false;
MovedFrom(h) == MountHandle(h.forced_, FALSE)

\* Faulty variant: the move leaves the source active.
WriteMovedFromStillActive(h) == h

\* other.active_ = false;
WriteMovedFrom(h) == WriteHandle(h.forced_, FALSE)

One(h) == SetToBag({h})

RECURSIVE Copies(_, _)
Copies(S, B) ==
  IF S = {} THEN 0
  ELSE LET x == CHOOSE y \in S : TRUE
       IN CopiesIn(x, B) + Copies(S \ {x}, B)

\* The number of handles of bag B that own a successful acquisition.
OwningMounts(B) == Copies({h \in BagToSet(B) : h.mounted_}, B)
OwningWrites(B) == Copies({h \in BagToSet(B) : h.active_}, B)

\* History only: every owning Mount alive has now seen setMode(FS_DISABLED).
MarkDisabled(B) ==
  LET M(h) == [h EXCEPT !.disabledSince = h.mounted_]
      D == {M(h) : h \in BagToSet(B)}
  IN [e \in D |-> Copies({h \in BagToSet(B) : M(h) = e}, B)]

\* What the last operation was and did: its arguments, its result, the
\* device calls it made, and the Guard and device as they were before it.
Did(op, forced, mode, owned, c) ==
  [op |-> op, forced |-> forced, mode |-> mode, owned |-> owned,
   ret |-> c.ret, calls |-> c.calls, pre |-> guard, preDev |-> device]

Init ==
  /\ guard = GuardInit
  /\ device = FALSE
  /\ mounts = EmptyBag
  /\ writes = EmptyBag
  /\ last = [op |-> "Guard", forced |-> FALSE, mode |-> FS_NORMAL,
             owned |-> FALSE, ret |-> FALSE, calls |-> <<>>,
             pre |-> GuardInit, preDev |-> FALSE]

\* Mount::Mount(Guard*, bool), also Guard::mount(bool).
MountCtor(forced, ok) ==
  /\ BagCardinality(mounts) < MaxMounts
  /\ LET c == tryMount(Enter, forced, ok)
     IN /\ guard' = c.g
        /\ device' = c.dev
        /\ mounts' = mounts (+) One(MountHandle(forced, c.ret))
        /\ last' = Did("Mount", forced, guard.mode_, c.ret, c)
  /\ UNCHANGED writes

\* Mount::~Mount().
MountDtor(h) ==
  /\ BagIn(h, mounts)
  /\ LET c == IF h.mounted_ THEN unmount(Enter, h.forced_) ELSE Enter
     IN /\ guard' = c.g
        /\ device' = c.dev
        /\ last' = Did("~Mount", h.forced_, guard.mode_, h.mounted_, c)
  /\ mounts' = mounts (-) One(h)
  /\ UNCHANGED writes

\* Mount::Mount(Mount&&): the new object takes the fields, the source is
\* left with mounted_ = false.
MountMove(h) ==
  /\ BagIn(h, mounts)
  /\ BagCardinality(mounts) < MaxMounts
  /\ mounts' = (mounts (-) One(h)) (+) One(h)
                 (+) One(MovedFrom(h))
  /\ last' = Did("Mount&&", h.forced_, guard.mode_, h.mounted_, Enter)
  /\ UNCHANGED <<guard, device, writes>>

\* WriteTransaction::WriteTransaction(Guard*, bool), also Guard::write(bool).
WriteCtor(forced) ==
  /\ BagCardinality(writes) < MaxWrites
  /\ LET c == tryBeginWriteTransaction(Enter, forced)
     IN /\ guard' = c.g
        /\ device' = c.dev
        /\ writes' = writes (+) One(WriteHandle(forced, c.ret))
        /\ last' = Did("WriteTransaction", forced, guard.mode_, c.ret, c)
  /\ UNCHANGED mounts

\* WriteTransaction::~WriteTransaction().
WriteDtor(h) ==
  /\ BagIn(h, writes)
  /\ LET c == IF h.active_ THEN endWriteTransaction(Enter, h.forced_)
              ELSE Enter
     IN /\ guard' = c.g
        /\ device' = c.dev
        /\ last' = Did("~WriteTransaction", h.forced_, guard.mode_,
                       h.active_, c)
  /\ writes' = writes (-) One(h)
  /\ UNCHANGED mounts

\* WriteTransaction::WriteTransaction(WriteTransaction&&).
WriteMove(h) ==
  /\ BagIn(h, writes)
  /\ BagCardinality(writes) < MaxWrites
  /\ writes' = (writes (-) One(h)) (+) One(h)
                 (+) One(WriteMovedFrom(h))
  /\ last' = Did("WriteTransaction&&", h.forced_, guard.mode_, h.active_,
                 Enter)
  /\ UNCHANGED <<guard, device, mounts>>

\* Guard::setMode(Mode).
SetMode(mode, ok) ==
  /\ LET c == setMode(Enter, mode, ok)
     IN /\ guard' = c.g
        /\ device' = c.dev
        /\ last' = Did("setMode", FALSE, mode, FALSE, c)
  /\ mounts' = IF mode = FS_DISABLED THEN MarkDisabled(mounts) ELSE mounts
  /\ UNCHANGED writes

MountHandles ==
  [forced_ : BOOLEAN, mounted_ : BOOLEAN, disabledSince : BOOLEAN]

WriteHandles == [forced_ : BOOLEAN, active_ : BOOLEAN]

Next ==
  \/ \E forced \in BOOLEAN, ok \in BOOLEAN : MountCtor(forced, ok)
  \/ \E h \in MountHandles : MountDtor(h)
  \/ \E h \in MountHandles : MountMove(h)
  \/ \E forced \in BOOLEAN : WriteCtor(forced)
  \/ \E h \in WriteHandles : WriteDtor(h)
  \/ \E h \in WriteHandles : WriteMove(h)
  \/ \E mode \in Mode, ok \in BOOLEAN : SetMode(mode, ok)

Spec == Init /\ [][Next]_vars

TypeOK ==
  /\ guard.mode_ \in Mode
  /\ guard.mounted_ \in BOOLEAN
  /\ device \in BOOLEAN
  /\ IsABag(mounts) /\ BagToSet(mounts) \subseteq MountHandles
  /\ IsABag(writes) /\ BagToSet(writes) \subseteq WriteHandles

(***************************************************************************)
(* Vocabulary of the properties.                                           *)
(***************************************************************************)
Calls == {last.calls[i] : i \in DOMAIN last.calls}

NoDeviceCall == last.calls = <<>>

Unmounted == "unmount" \in Calls

\* The Guard is exactly as it was before the last operation.
GuardUntouched == guard = last.pre /\ device = last.preDev

MountCounts(g) == <<g.mount_count_, g.forced_mount_count_>>

WriteCounts(g) ==
  <<g.write_transaction_count_, g.forced_write_transaction_count_>>

\* A Mount alive that owns an acquisition and has seen no
\* setMode(FS_DISABLED) since it was granted.
HeldUndisturbed ==
  \E h \in BagToSet(mounts) : h.mounted_ /\ ~h.disabledSince

(***************************************************************************)
(* C1: whenever setMode(FS_DISABLED) has just returned from a call made in *)
(* another mode, the device has been unmounted and isMounted() is false.   *)
(***************************************************************************)
C1_DisabledUnmountsAtOnce ==
  (last.op = "setMode" /\ last.mode = FS_DISABLED
     /\ last.pre.mode_ # FS_DISABLED)
    => ~guard.mounted_ /\ ~device

(***************************************************************************)
(* C2: while a granted Mount is alive and setMode(FS_DISABLED) has not     *)
(* been called since its grant, the device is mounted, isMounted() is true *)
(* and the operation that led here made no Device.unmount() call.          *)
(***************************************************************************)
C2_MountedWhileHeld ==
  HeldUndisturbed => guard.mounted_ /\ device /\ ~Unmounted

\* Another owning Mount has just been released in FS_EAGER_UNMOUNT while
\* an undisturbed one is still held.
C2_Witness ==
  /\ HeldUndisturbed
  /\ last.op = "~Mount" /\ last.owned
  /\ guard.mode_ = FS_EAGER_UNMOUNT

(***************************************************************************)
(* C3: between operations, pendingMounts() is the number of Mount objects  *)
(* alive that own an acquisition and pendingWrites() the number of         *)
(* WriteTransaction objects alive that own one; with no handle alive both  *)
(* are 0.                                                                  *)
(***************************************************************************)
C3_PendingCountsMatchHandles ==
  /\ guard.mount_count_ = OwningMounts(mounts)
  /\ guard.write_transaction_count_ = OwningWrites(writes)
  /\ (mounts = EmptyBag => guard.mount_count_ = 0)
  /\ (writes = EmptyBag => guard.write_transaction_count_ = 0)

\* An owning Mount has just been moved: two objects, one acquisition.
C3_Witness ==
  /\ last.op = "Mount&&" /\ last.owned
  /\ BagCardinality(mounts) = 2
  /\ guard.mount_count_ = 1

(***************************************************************************)
(* C4: in every state 0 <= forced_mount_count_ <= mount_count_ and         *)
(* 0 <= forced_write_transaction_count_ <= write_transaction_count_.       *)
(***************************************************************************)
C4_ForcedWithinTotal ==
  /\ 0 <= guard.forced_mount_count_
  /\ guard.forced_mount_count_ <= guard.mount_count_
  /\ 0 <= guard.forced_write_transaction_count_
  /\ guard.forced_write_transaction_count_ <= guard.write_transaction_count_

\* A non-forced Mount has just been released while no forced one is held.
C4_Witness ==
  /\ last.op = "~Mount" /\ last.owned /\ ~last.forced
  /\ last.pre.forced_mount_count_ = 0
  /\ guard.mount_count_ = 0

(***************************************************************************)
(* C5: in FS_NORMAL the release of a Mount makes no Device.unmount() call  *)
(* and leaves isMounted() as it was; and no operation that starts and ends *)
(* in FS_NORMAL with the device mounted unmounts it, so mounted with no    *)
(* pending mounts persists until the mode changes.                         *)
(***************************************************************************)
C5_NormalNeverAutoUnmounts ==
  /\ (last.op = "~Mount" /\ last.pre.mode_ = FS_NORMAL)
       => ~Unmounted /\ guard.mounted_ = last.pre.mounted_
  /\ (last.pre.mode_ = FS_NORMAL /\ guard.mode_ = FS_NORMAL
        /\ last.pre.mounted_)
       => ~Unmounted /\ guard.mounted_ /\ device

\* The last owning Mount has just been released in FS_NORMAL and the device
\* is still mounted.
C5_Witness ==
  /\ last.op = "~Mount" /\ last.owned
  /\ last.pre.mode_ = FS_NORMAL
  /\ guard.mount_count_ = 0
  /\ guard.mounted_ /\ device

(***************************************************************************)
(* C6: in FS_EAGER_UNMOUNT the release that takes mount_count_ from 1 to 0 *)
(* with the device mounted calls Device.unmount() exactly once and leaves  *)
(* isMounted() false; a release that leaves mount_count_ > 0 makes no      *)
(* device call.  From FS_NORMAL with one granted Mount and the device      *)
(* mounted, setMode(FS_EAGER_UNMOUNT) makes no device call and leaves the  *)
(* device mounted for that release to unmount.                             *)
(***************************************************************************)
C6_EagerUnmountOnLastRelease ==
  /\ (last.op = "~Mount" /\ last.owned
        /\ last.pre.mode_ = FS_EAGER_UNMOUNT)
       => /\ (last.pre.mount_count_ = 1 /\ last.pre.mounted_)
               => /\ last.calls = <<"unmount">>
                  /\ ~guard.mounted_ /\ ~device
                  /\ guard.mount_count_ = 0
          /\ guard.mount_count_ > 0 => NoDeviceCall
  /\ (last.op = "setMode" /\ last.mode = FS_EAGER_UNMOUNT
        /\ last.pre.mode_ = FS_NORMAL
        /\ last.pre.mount_count_ = 1 /\ last.pre.mounted_)
       => /\ NoDeviceCall
          /\ guard.mode_ = FS_EAGER_UNMOUNT
          /\ guard.mounted_ /\ guard.mount_count_ = 1

\* The last owning Mount has just been released in FS_EAGER_UNMOUNT with
\* the device mounted.
C6_Witness ==
  /\ last.op = "~Mount" /\ last.owned
  /\ last.pre.mode_ = FS_EAGER_UNMOUNT
  /\ last.pre.mount_count_ = 1 /\ last.pre.mounted_
  /\ last.calls = <<"unmount">>

(***************************************************************************)
(* C7: in FS_LAME_DUCK a non-forced mount request is refused with no       *)
(* device call and nothing changed; a forced one is granted exactly when   *)
(* the device was mounted already or Device.mount() returned true, and     *)
(* then mount_count_ and forced_mount_count_ each grow by one.             *)
(***************************************************************************)
C7_LameDuckMount ==
  (last.op = "Mount" /\ last.pre.mode_ = FS_LAME_DUCK)
    => /\ BagIn(MountHandle(last.forced, last.ret), mounts)
       /\ ~last.forced => ~last.ret /\ NoDeviceCall /\ GuardUntouched
       /\ last.forced
            => /\ last.ret
                 <=> (last.pre.mounted_ \/ last.calls = <<"mount=true">>)
               /\ last.ret
                    => MountCounts(guard)
                         = <<last.pre.mount_count_ + 1,
                             last.pre.forced_mount_count_ + 1>>

\* A forced request in FS_LAME_DUCK has just mounted the device.
C7_Witness ==
  /\ last.op = "Mount" /\ last.pre.mode_ = FS_LAME_DUCK
  /\ last.forced /\ last.ret
  /\ last.calls = <<"mount=true">>

(***************************************************************************)
(* C8: in FS_SHUTDOWN and FS_DISABLED every mount request, forced or not,  *)
(* is refused with no device call and the Guard unchanged; and no          *)
(* operation that starts and ends in those modes raises pendingMounts().   *)
(***************************************************************************)
C8_ForcedNeverBypassesShutdown ==
  /\ (last.op = "Mount" /\ last.pre.mode_ \in {FS_SHUTDOWN, FS_DISABLED})
       => /\ ~last.ret
          /\ BagIn(MountHandle(last.forced, FALSE), mounts)
          /\ NoDeviceCall
          /\ GuardUntouched
  /\ (last.pre.mode_ \in {FS_SHUTDOWN, FS_DISABLED}
        /\ guard.mode_ \in {FS_SHUTDOWN, FS_DISABLED})
       => guard.mount_count_ <= last.pre.mount_count_

\* A forced request has just been made in FS_SHUTDOWN while another Mount
\* is still held.
C8_Witness ==
  /\ last.op = "Mount" /\ last.forced
  /\ last.pre.mode_ = FS_SHUTDOWN
  /\ last.pre.mount_count_ > 0 /\ last.pre.mounted_

\* The mode admits a request with this flag.
Admits(mode, forced) ==
  \/ mode \in {FS_NORMAL, FS_EAGER_UNMOUNT}
  \/ mode = FS_LAME_DUCK /\ forced

(***************************************************************************)
(* C9: a write request is granted exactly when the device is mounted and   *)
(* the mode is FS_NORMAL or FS_EAGER_UNMOUNT, or FS_LAME_DUCK with the     *)
(* request forced; granted, write_transaction_count_ grows by one and      *)
(* forced_write_transaction_count_ by one iff forced; refused, nothing     *)
(* changes.                                                                *)
(***************************************************************************)
C9_WriteAdmission ==
  (last.op = "WriteTransaction")
    => /\ last.ret <=> (last.pre.mounted_ /\ Admits(last.pre.mode_, last.forced))
       /\ BagIn(WriteHandle(last.forced, last.ret), writes)
       /\ last.ret
            => /\ WriteCounts(guard)
                    = <<last.pre.write_transaction_count_ + 1,
                        last.pre.forced_write_transaction_count_
                          + (IF last.forced THEN 1 ELSE 0)>>
               /\ MountCounts(guard) = MountCounts(last.pre)
       /\ ~last.ret => GuardUntouched

\* A forced write has just been granted in FS_LAME_DUCK under a forced
\* Mount.
C9_Witness ==
  /\ last.op = "WriteTransaction" /\ last.forced /\ last.ret
  /\ last.pre.mode_ = FS_LAME_DUCK
  /\ guard.forced_mount_count_ > 0

(***************************************************************************)
(* C10: setMode(X) called in mode X makes no device call and leaves the    *)
(* mode, isMounted() and the four counts as they were.                     *)
(***************************************************************************)
C10_SetModeSameModeNoOp ==
  (last.op = "setMode" /\ last.mode = last.pre.mode_)
    => NoDeviceCall /\ GuardUntouched

\* setMode(FS_EAGER_UNMOUNT) has just been called in FS_EAGER_UNMOUNT with
\* the device mounted and no Mount pending.
C10_Witness ==
  /\ last.op = "setMode" /\ last.mode = last.pre.mode_
  /\ guard.mode_ = FS_EAGER_UNMOUNT
  /\ guard.mounted_ /\ guard.mount_count_ = 0

(***************************************************************************)
(* C11: in every state with the mode FS_SHUTDOWN and no Mount pending the  *)
(* device is not mounted.                                                  *)
(***************************************************************************)
C11_ShutdownIdleUnmounted ==
  (guard.mode_ = FS_SHUTDOWN /\ guard.mount_count_ = 0)
    => ~guard.mounted_ /\ ~device

(***************************************************************************)
(* C12 as stated: in every state write_transaction_count_ > 0 implies      *)
(* mounted_.                                                               *)
(***************************************************************************)
C12_WritesImplyMounted ==
  guard.write_transaction_count_ > 0 => guard.mounted_

(***************************************************************************)
(* C12 amended: at the instant a WriteTransaction is granted the device is *)
(* mounted: the grant found mounted_ true and leaves it true, with the     *)
(* device physically mounted.                                              *)
(***************************************************************************)
C12_MountedWhenWriteGranted ==
  (last.op = "WriteTransaction" /\ last.ret)
    => /\ last.pre.mounted_ /\ last.preDev
       /\ guard.mounted_ /\ device
       /\ guard.write_transaction_count_ > 0

\* A WriteTransaction has just been granted while another is outstanding.
C12_Witness ==
  /\ last.op = "WriteTransaction" /\ last.ret
  /\ guard.write_transaction_count_ = 2
  /\ guard.mounted_

\* The owning handles of bag B whose acquisition was forced.
ForcedOwningMounts(B) ==
  Copies({h \in BagToSet(B) : h.mounted_ /\ h.forced_}, B)

ForcedOwningWrites(B) ==
  Copies({h \in BagToSet(B) : h.active_ /\ h.forced_}, B)

Flag(b) == IF b THEN 1 ELSE 0

(***************************************************************************)
(* C13: every acquisition not yet released is owned by exactly one object  *)
(* alive, carrying the forced flag it was acquired with; destroying an     *)
(* owning object releases once with that flag; destroying an object whose  *)
(* acquisition failed or that was moved from, and moving an object, leave  *)
(* the Guard untouched.                                                    *)
(***************************************************************************)
C13_ReleaseExactlyOnce ==
  /\ MountCounts(guard)
       = <<OwningMounts(mounts), ForcedOwningMounts(mounts)>>
  /\ WriteCounts(guard)
       = <<OwningWrites(writes), ForcedOwningWrites(writes)>>
  /\ (last.op = "~Mount" /\ last.owned)
       => /\ MountCounts(guard)
               = <<last.pre.mount_count_ - 1,
                   last.pre.forced_mount_count_ - Flag(last.forced)>>
          /\ WriteCounts(guard) = WriteCounts(last.pre)
  /\ (last.op = "~WriteTransaction" /\ last.owned)
       => /\ WriteCounts(guard)
               = <<last.pre.write_transaction_count_ - 1,
                   last.pre.forced_write_transaction_count_
                     - Flag(last.forced)>>
          /\ MountCounts(guard) = MountCounts(last.pre)
  /\ (last.op \in {"~Mount", "~WriteTransaction"} /\ ~last.owned)
       => NoDeviceCall /\ GuardUntouched
  /\ (last.op \in {"Mount&&", "WriteTransaction&&"})
       => NoDeviceCall /\ GuardUntouched

\* An active WriteTransaction was moved and the object it was moved from
\* has just been destroyed: the acquisition is still held, once.
C13_Witness ==
  /\ last.op = "~WriteTransaction" /\ ~last.owned
  /\ guard.write_transaction_count_ = 1
  /\ OwningWrites(writes) = 1
  /\ BagCardinality(writes) = 1

\* The last operation called Device.mount().
MountCalled == Calls \cap {"mount=true", "mount=false"} # {}

(***************************************************************************)
(* C14: setMode(FS_NORMAL) called in another mode with the device not      *)
(* mounted and mount_count_ > 0 calls Device.mount(), and isMounted() is   *)
(* true afterwards if the device accepted.                                 *)
(***************************************************************************)
C14_EnterNormalRemounts ==
  (last.op = "setMode" /\ last.mode = FS_NORMAL
     /\ last.pre.mode_ # FS_NORMAL
     /\ ~last.pre.mounted_ /\ last.pre.mount_count_ > 0)
    => /\ MountCalled
       /\ "mount=true" \in Calls => guard.mounted_

(***************************************************************************)
(* C15: setMode(FS_LAME_DUCK) called in another mode calls Device.mount()  *)
(* if the device is not mounted and forced_mount_count_ > 0, and leaves    *)
(* the device unmounted if mount_count_ = 0.                               *)
(***************************************************************************)
C15_EnterLameDuck ==
  (last.op = "setMode" /\ last.mode = FS_LAME_DUCK
     /\ last.pre.mode_ # FS_LAME_DUCK)
    => /\ (~last.pre.mounted_ /\ last.pre.forced_mount_count_ > 0)
            => MountCalled
       /\ guard.mount_count_ = 0 => ~guard.mounted_ /\ ~device

(***************************************************************************)
(* C16: a mount request that passes the mode, finds the device not mounted *)
(* and has Device.mount() return false makes that one call only, yields a  *)
(* handle with mounted() false and leaves mounted_ false and the counts    *)
(* unchanged; every request that passes the mode with the device not       *)
(* mounted calls Device.mount(), whatever failed before; destroying a      *)
(* handle that was refused changes nothing.                                *)
(***************************************************************************)
C16_MountFailureIsDenial ==
  /\ (last.op = "Mount" /\ ~DeniedByMode(last.pre.mode_, last.forced)
        /\ ~last.pre.mounted_)
       => /\ Len(last.calls) = 1 /\ MountCalled
          /\ "mount=false" \in Calls
               => /\ ~last.ret
                  /\ BagIn(MountHandle(last.forced, FALSE), mounts)
                  /\ ~guard.mounted_ /\ ~device
                  /\ guard = last.pre
  /\ (last.op = "~Mount" /\ ~last.owned)
       => /\ NoDeviceCall
          /\ MountCounts(guard) = MountCounts(last.pre)
          /\ guard.mounted_ = last.pre.mounted_

\* A request has just failed on the device while the handle of an earlier
\* refused request is still alive.
C16_Witness ==
  /\ last.op = "Mount" /\ last.calls = <<"mount=false">>
  /\ CopiesIn(MountHandle(last.forced, FALSE), mounts) = 2

(***************************************************************************)
(* C17: beginning a write (granted or refused), ending one and moving one  *)
(* make no device call and leave the mode, mounted_, mount_count_ and      *)
(* forced_mount_count_ unchanged, in every mode, also when the write ended *)
(* is the last outstanding.                                                *)
(***************************************************************************)
C17_WritesNeverDriveDevice ==
  (last.op \in {"WriteTransaction", "~WriteTransaction",
                "WriteTransaction&&"})
    => /\ NoDeviceCall
       /\ device = last.preDev
       /\ guard.mode_ = last.pre.mode_
       /\ guard.mounted_ = last.pre.mounted_
       /\ MountCounts(guard) = MountCounts(last.pre)

\* The last outstanding write has just ended outside FS_NORMAL with the
\* device mounted.
C17_Witness ==
  /\ last.op = "~WriteTransaction" /\ last.owned
  /\ guard.write_transaction_count_ = 0
  /\ guard.mode_ = FS_EAGER_UNMOUNT
  /\ guard.mounted_

(***************************************************************************)
(* C18: setMode leaves the four counts as they were, for every target      *)
(* mode; a Mount whose device was unmounted under it stays counted, and    *)
(* its release decrements the count and makes no device call.              *)
(***************************************************************************)
C18_SetModeKeepsCounts ==
  /\ (last.op = "setMode")
       => /\ MountCounts(guard) = MountCounts(last.pre)
          /\ WriteCounts(guard) = WriteCounts(last.pre)
  /\ (last.op = "~Mount" /\ last.owned /\ ~last.pre.mounted_)
       => /\ NoDeviceCall
          /\ guard.mount_count_ = last.pre.mount_count_ - 1
          /\ ~guard.mounted_

\* A Mount stranded on an unmounted device has just been released.
C18_Witness ==
  /\ last.op = "~Mount" /\ last.owned
  /\ ~last.pre.mounted_
  /\ guard.mount_count_ = 0

(***************************************************************************)
(* C19: mounted_ always equals the physical state of the device, and       *)
(* every operation makes at most one device call: Device.mount() only with *)
(* the flag false and the device unmounted, Device.unmount() only with the *)
(* flag true and the device mounted.                                       *)
(***************************************************************************)
C19_FlagTracksDevice ==
  /\ guard.mounted_ = device
  /\ Len(last.calls) <= 1
  /\ MountCalled => ~last.pre.mounted_ /\ ~last.preDev
  /\ Unmounted => last.pre.mounted_ /\ last.preDev

\* FS_DISABLED has just been left with the device still mounted.
C19_Witness ==
  /\ last.op = "setMode" /\ last.pre.mode_ = FS_DISABLED
  /\ last.calls = <<"unmount">>

(***************************************************************************)
(* C20: in every state with the mode FS_EAGER_UNMOUNT, mounted_ implies    *)
(* mount_count_ > 0.                                                       *)
(***************************************************************************)
C20_EagerMountedImpliesHeld ==
  (guard.mode_ = FS_EAGER_UNMOUNT /\ guard.mounted_)
    => guard.mount_count_ > 0

====
